---- MODULE Spec2Model ----
(***************************************************************************)
(* A model of unblock.cc: the sliding-block puzzle solver.                 *)
(*   Piece   : (x, y, size, orient), drawn into a kBoardSize^2 buffer      *)
(*   State   : a sequence of pieces, the goal piece first                  *)
(*   Game    : breadth-first search over States (queue_, prev_state_)      *)
(***************************************************************************)
EXTENDS Integers, Sequences, FiniteSets, TLC

(* ---- program constants ------------------------------------------------ *)
kBoardSize == 6
kHashMult == 31
kEmpty == 46
kStar == 42
kLetterA == 65

(* ---- bounds of the model ---------------------------------------------- *)
\* start layouts hold at most MaxPieces pieces
MaxPieces == 3
\* every piece of a layout handed to the program has its anchor (x, y) in
\* AnchorCoords \X AnchorCoords (the top left corner of the board); from there
\* the pieces slide over the whole board
AnchorCoords == {0, 1}
\* Solve is invoked at most MaxCalls times on one Game
MaxCalls == 2
\* pieces handed to a State or Piece operation on its own have sizes 2..MaxSize
MaxSize == 3

VARIABLES
  start_state_,   \* Game::start_state_
  dest_x_,        \* Game::dest_x_
  dest_y_,        \* Game::dest_y_
  queue_,         \* Game::queue_ : sequence of QueueElem
  prev_state_,    \* Game::prev_state_ : function, key State -> predecessor State
  pc,             \* "constructed" | "loop" | "returned" | "exit" ("unit": no Game)
  result,         \* the vector<State> the last Solve returned
  fatal,          \* "none" | "clash" | "backpointer": the exit(1) taken; "oob":
                  \* Draw wrote outside the buffer
  calls,          \* number of Solve invocations so far
  last_moves,     \* elem.moves of the entry the last Solve returned from (-1: none)
  dequeued,       \* history: the set of entries the current Solve has popped
  returned,       \* history: what each Solve so far returned, in order
  retraced,       \* what TracePathTo returned when called again after Solve
                  \* (<<>>: not called since the last Solve was entered)
  arg,            \* the State a State/Piece operation is applied to on its own
  out,            \* what that operation produced
  op              \* which operation produced out ("none" before any)

gameVars == <<start_state_, dest_x_, dest_y_, queue_, prev_state_, pc, result,
              fatal, calls, last_moves, dequeued, returned, retraced>>

unitVars == <<arg, out, op>>

vars == <<start_state_, dest_x_, dest_y_, queue_, prev_state_, pc, result,
          fatal, calls, last_moves, dequeued, returned, retraced, arg, out, op>>

(* ---- Piece ------------------------------------------------------------ *)
Orient == {"kHoriz", "kVert"}

Piece(x, y, size, orient) == [x |-> x, y |-> y, size |-> size, orient |-> orient]

\* operator< comparing the rows only
PieceLessRowOnly(p, q) == p.y < q.y

\* Piece::operator<
PieceLess(p, q) == p.y < q.y \/ (p.y = q.y /\ p.x < q.x)

\* Piece::operator==
PieceEq(p, q) == p.x = q.x /\ p.y = q.y /\ p.size = q.size /\ p.orient = q.orient

\* the cells Piece::Draw visits, in order: <<x, y>> pairs
PieceCells(p) ==
  [i \in 1..p.size |->
     IF p.orient = "kHoriz" THEN <<p.x + (i - 1), p.y>> ELSE <<p.x, p.y + (i - 1)>>]

PieceCellSet(p) == {PieceCells(p)[i] : i \in 1..p.size}

\* Move without the orientation test: every piece shifts along x
MoveAlongX(p, delta) == [p EXCEPT !.x = p.x + delta]

\* Piece::Move
Move(p, delta) ==
  IF p.orient = "kHoriz" THEN [p EXCEPT !.x = p.x + delta]
                         ELSE [p EXCEPT !.y = p.y + delta]

(* ---- board ------------------------------------------------------------ *)
Coords == 0..(kBoardSize - 1)
Cells == Coords \X Coords

InBoard(p) == \A c \in PieceCellSet(p) : c \in Cells

EmptyState == <<>>

(* ---- Piece::Draw / State::Draw ---------------------------------------- *)
\* A draw in progress: the buffer and how the drawing went so far.
\*   "ok"    every cell written so far was empty
\*   "clash" Piece::Draw found a non-empty cell and called exit(1)
\*   "oob"   Piece::Draw indexed the buffer outside the board (undefined behaviour)
BlankBuf == [c \in Cells |-> kEmpty]

RECURSIVE PieceDrawFrom(_, _, _, _)
PieceDrawFrom(d, p, c, i) ==
  IF i > p.size \/ d.status # "ok" THEN d
  ELSE LET cell == PieceCells(p)[i] IN
       IF cell \notin Cells THEN [d EXCEPT !.status = "oob"]
       ELSE IF d.buf[cell] # kEmpty THEN [d EXCEPT !.status = "clash"]
       ELSE PieceDrawFrom([d EXCEPT !.buf[cell] = c], p, c, i + 1)

\* Piece::Draw(buf, c)
PieceDraw(d, p, c) == PieceDrawFrom(d, p, c, 1)

\* the marker State::Draw gives the piece at 0-based index i
Marker(i) == IF i = 0 THEN kStar ELSE kLetterA + i

RECURSIVE StateDrawFrom(_, _, _)
StateDrawFrom(S, d, k) ==
  IF k > Len(S) \/ d.status # "ok" THEN d
  ELSE StateDrawFrom(S, PieceDraw(d, S[k], Marker(k - 1)), k + 1)

\* State::Draw(b)
StateDraw(S) == StateDrawFrom(S, [buf |-> BlankBuf, status |-> "ok"], 1)

(* ---- Piece::MovementRange --------------------------------------------- *)
\* the buffer cell the scan looks at when its cursor is cur
ScanCell(p, cur) == IF p.orient = "kHoriz" THEN <<cur, p.y>> ELSE <<p.x, cur>>

\* the piece's coordinate along its axis
AxisPos(p) == IF p.orient = "kHoriz" THEN p.x ELSE p.y

\* while (min_delta > -1 && cur >= 0 && buf[..] == kEmpty) { min_delta--; cur--; }
RECURSIVE ScanMin(_, _, _, _)
ScanMin(buf, p, min_delta, cur) ==
  IF min_delta > -1 /\ cur >= 0 /\ buf[ScanCell(p, cur)] = kEmpty
  THEN ScanMin(buf, p, min_delta - 1, cur - 1)
  ELSE min_delta

\* the upward scan without the max_delta < 1 test
RECURSIVE ScanMaxUncapped(_, _, _, _)
ScanMaxUncapped(buf, p, max_delta, cur) ==
  IF cur < kBoardSize /\ buf[ScanCell(p, cur)] = kEmpty
  THEN ScanMaxUncapped(buf, p, max_delta + 1, cur + 1)
  ELSE max_delta

\* while (max_delta < 1 && cur < kBoardSize && buf[..] == kEmpty) { max_delta++; cur++; }
RECURSIVE ScanMax(_, _, _, _)
ScanMax(buf, p, max_delta, cur) ==
  IF max_delta < 1 /\ cur < kBoardSize /\ buf[ScanCell(p, cur)] = kEmpty
  THEN ScanMax(buf, p, max_delta + 1, cur + 1)
  ELSE max_delta

\* the range when the scans stop at the board's edge only
MovementRangeEdgeOnly(p, buf) ==
  [first  |-> IF AxisPos(p) > 0 THEN -1 ELSE 0,
   second |-> IF AxisPos(p) + p.size < kBoardSize THEN 1 ELSE 0]

\* the range when the scan towards lower coordinates never runs
MovementRangeForwardOnly(p, buf) ==
  [first  |-> 0,
   second |-> ScanMax(buf, p, 0, AxisPos(p) + p.size)]

\* Piece::MovementRange(buf) -> {min_delta, max_delta}
MovementRange(p, buf) ==
  [first  |-> ScanMin(buf, p, 0, AxisPos(p) - 1),
   second |-> ScanMax(buf, p, 0, AxisPos(p) + p.size)]

(* ---- State::Canonicalize ---------------------------------------------- *)
\* the permutations of 1..n
Perms(n) == {f \in [1..n -> 1..n] : \A i, j \in 1..n : f[i] = f[j] => i = j}

\* std::sort(first, last) with Piece::operator<: some permutation of the range
\* that is ordered by operator<; the order of equivalent elements is unspecified.
SortOutcomes(s) ==
  {t \in {[i \in 1..Len(s) |-> s[f[i]]] : f \in Perms(Len(s))} :
     \A i, j \in 1..Len(s) : i < j => ~PieceLess(t[j], t[i])}

\* Canonicalize that leaves the pieces as they are
CanonicalizeUnsorted(S) == {S}

\* State::Canonicalize(): sort(pieces.begin() + 1, pieces.end()).
\* The set of piece sequences the call can leave in the State.
CanonicalizeOutcomes(S) == {<<S[1]>> \o t : t \in SortOutcomes(Tail(S))}

(* ---- hash() and operator== ------------------------------------------- *)
\* size_t is 64 bits wide: a value is <<w0, w1, w2, w3>>, four 16-bit limbs,
\* least significant first.
Limb == 65536

OrientValue(o) == IF o = "kHoriz" THEN 0 ELSE 1

\* Piece::hash()
PieceHash(p) ==
  p.x + kHashMult * (p.y + kHashMult * (p.size + kHashMult * OrientValue(p.orient)))

RECURSIVE Xor16(_, _, _)
Xor16(a, b, bits) ==
  IF bits = 0 THEN 0
  ELSE (((a % 2) + (b % 2)) % 2) + 2 * Xor16(a \div 2, b \div 2, bits - 1)

\* cur * kHashMult + h, modulo 2^64
MulAdd(cur, h) ==
  LET t0 == cur[1] * kHashMult + (h % Limb)
      t1 == cur[2] * kHashMult + (h \div Limb) + (t0 \div Limb)
      t2 == cur[3] * kHashMult + (t1 \div Limb)
      t3 == cur[4] * kHashMult + (t2 \div Limb)
  IN <<t0 % Limb, t1 % Limb, t2 % Limb, t3 % Limb>>

\* cur ^= cur << 32
ShiftXor(cur) == <<cur[1], cur[2], Xor16(cur[3], cur[1], 16), Xor16(cur[4], cur[2], 16)>>

RECURSIVE StateHashFrom(_, _, _)
StateHashFrom(S, k, cur) ==
  IF k > Len(S) THEN cur
  ELSE StateHashFrom(S, k + 1, ShiftXor(MulAdd(cur, PieceHash(S[k]))))

\* State::hash()
StateHash(S) == StateHashFrom(S, 1, <<0, 0, 0, 0>>)

\* State::operator==: vector equality, element by element with Piece::operator==
StateEq(S, T) == Len(S) = Len(T) /\ \A i \in 1..Len(S) : PieceEq(S[i], T[i])

(* ---- State::Neighbors ------------------------------------------------- *)
\* the inner loop counting down from range.second to range.first
DeltasDescending(range) ==
  SelectSeq([k \in 1..(range.second - range.first + 1) |-> range.second - (k - 1)],
            LAMBDA d : d # 0)

\* the inner loop without its `delta != 0` test
DeltasWithZero(range) ==
  [k \in 1..(range.second - range.first + 1) |-> range.first + (k - 1)]

\* the deltas the inner loop of Neighbors visits for one piece, in order
Deltas(range) ==
  SelectSeq([k \in 1..(range.second - range.first + 1) |-> range.first + (k - 1)],
            LAMBDA d : d # 0)

\* the states Neighbors builds before canonicalizing them, in order:
\* piece index ascending, delta ascending
RECURSIVE MovedFrom(_, _, _)
MovedFrom(S, buf, i) ==
  IF i > Len(S) THEN <<>>
  ELSE LET ds == Deltas(MovementRange(S[i], buf)) IN
       [k \in 1..Len(ds) |-> [S EXCEPT ![i] = Move(S[i], ds[k])]]
       \o MovedFrom(S, buf, i + 1)

Moved(S) == MovedFrom(S, StateDraw(S).buf, 1)

\* the vectors Neighbors can return: each moved state canonicalized
RECURSIVE CanonAll(_, _)
CanonAll(ms, k) ==
  IF k = 0 THEN {<<>>}
  ELSE {Append(pre, c) : pre \in CanonAll(ms, k - 1), c \in CanonicalizeOutcomes(ms[k])}

\* State::Neighbors(), for a State whose Draw succeeds
NeighborsOutcomes(S) == LET ms == Moved(S) IN CanonAll(ms, Len(ms))

(* ---- State predicates ------------------------------------------------- *)
\* no two pieces share a cell and every piece lies on the board
NoOverlap(S) ==
  \A i, j \in 1..Len(S) : i < j => PieceCellSet(S[i]) \cap PieceCellSet(S[j]) = {}

AllInBoard(S) == \A i \in 1..Len(S) : InBoard(S[i])

ValidState(S) == Len(S) >= 1 /\ AllInBoard(S) /\ NoOverlap(S)

\* the test with the coordinates crossed
AtDestCrossed(S, dx, dy) == S[1].x = dy /\ S[1].y = dx

\* the test of Solve: front_piece.x == dest_x_ && front_piece.y == dest_y_
AtDest(S, dx, dy) == S[1].x = dx /\ S[1].y = dy

(* ---- the layouts and targets a caller passes to Game() ---------------- *)
StartPieces ==
  {q \in {Piece(x, y, 2, o) : x \in AnchorCoords, y \in AnchorCoords, o \in Orient} :
     InBoard(q)}

StartStates ==
  UNION {{S \in [1..n -> StartPieces] : ValidState(S)} : n \in 1..MaxPieces}

\* the targets tried with start layout S: the cells of the row and of the column
\* of the goal piece's anchor (its own lane, and a lane it can never be moved to)
Targets(S) == {c \in Cells : c[1] = S[1].x \/ c[2] = S[1].y}

(* ---- Game ------------------------------------------------------------- *)
QueueElem(state, moves) == [state |-> state, moves |-> moves]

\* unordered_map::emplace: inserts only when the key is absent
Emplace(map, key, value) ==
  IF key \in DOMAIN map THEN map ELSE (key :> value) @@ map

\* Game::TracePathTo(final_state): walks prev_state_ until the empty State.
\* `s = std::move(iter->second)` moves the mapped State out of the map, which
\* leaves an empty vector behind.  status "backpointer" is the exit(1) taken
\* when a State has no entry.
RECURSIVE TraceFrom(_, _, _)
TraceFrom(map, s, sequence) ==
  IF s = EmptyState THEN [sequence |-> sequence, map |-> map, status |-> "ok"]
  ELSE IF s \notin DOMAIN map
       THEN [sequence |-> Append(sequence, s), map |-> map, status |-> "backpointer"]
       ELSE TraceFrom([map EXCEPT ![s] = EmptyState], map[s], Append(sequence, s))

Reverse(seq) == [i \in 1..Len(seq) |-> seq[Len(seq) + 1 - i]]

\* the trace without the final reverse()
TracePathToNoReverse(map, final_state) == TraceFrom(map, final_state, <<>>)

TracePathTo(map, final_state) ==
  LET t == TraceFrom(map, final_state, <<>>) IN
  [sequence |-> Reverse(t.sequence), map |-> t.map, status |-> t.status]

\* the loop with push_front in place of push_back: the frontier becomes a stack
RECURSIVE ExpandFromPushFront(_, _, _, _, _)
ExpandFromPushFront(nbrs, k, elem, map, queue) ==
  IF k > Len(nbrs) THEN [map |-> map, queue |-> queue]
  ELSE IF nbrs[k] \in DOMAIN map
       THEN ExpandFromPushFront(nbrs, k + 1, elem, map, queue)
       ELSE ExpandFromPushFront(nbrs, k + 1, elem,
                                (nbrs[k] :> elem.state) @@ map,
                                <<[state |-> nbrs[k], moves |-> elem.moves + 1]>> \o queue)

\* the loop without the find() test: every neighbor is enqueued
RECURSIVE ExpandFromNoFind(_, _, _, _, _)
ExpandFromNoFind(nbrs, k, elem, map, queue) ==
  IF k > Len(nbrs) THEN [map |-> map, queue |-> queue]
  ELSE ExpandFromNoFind(nbrs, k + 1, elem,
                        IF nbrs[k] \in DOMAIN map THEN map
                        ELSE (nbrs[k] :> elem.state) @@ map,
                        Append(queue, [state |-> nbrs[k], moves |-> elem.moves + 1]))

\* the loop of a Solve that pushes the dequeued entry back behind the neighbors
RECURSIVE ExpandFromRequeue(_, _, _, _, _)
ExpandFromRequeue(nbrs, k, elem, map, queue) ==
  IF k > Len(nbrs) THEN [map |-> map, queue |-> Append(queue, elem)]
  ELSE IF nbrs[k] \in DOMAIN map
       THEN ExpandFromRequeue(nbrs, k + 1, elem, map, queue)
       ELSE ExpandFromRequeue(nbrs, k + 1, elem,
                              (nbrs[k] :> elem.state) @@ map,
                              Append(queue, [state |-> nbrs[k], moves |-> elem.moves + 1]))

\* the for loop of Solve over the neighbors of elem
RECURSIVE ExpandFrom(_, _, _, _, _)
ExpandFrom(nbrs, k, elem, map, queue) ==
  IF k > Len(nbrs) THEN [map |-> map, queue |-> queue]
  ELSE IF nbrs[k] \in DOMAIN map
       THEN ExpandFrom(nbrs, k + 1, elem, map, queue)
       ELSE ExpandFrom(nbrs, k + 1, elem,
                       Emplace(map, nbrs[k], elem.state),
                       Append(queue, QueueElem(nbrs[k], elem.moves + 1)))

Init ==
  /\ start_state_ \in StartStates
  /\ \E c \in Targets(start_state_) : dest_x_ = c[1] /\ dest_y_ = c[2]
  /\ queue_ = <<>>
  /\ prev_state_ = <<>>
  /\ pc = "constructed"
  /\ result = <<>>
  /\ fatal = "none"
  /\ calls = 0
  /\ last_moves = -1
  /\ dequeued = {}
  /\ returned = <<>>
  /\ retraced = <<>>
  /\ arg = EmptyState
  /\ out = <<>>
  /\ op = "none"

\* Solve(), lines 212-213: entered on a fresh Game or again after a return
SolveEnter ==
  /\ pc \in {"constructed", "returned"}
  /\ calls < MaxCalls
  /\ queue_' = Append(queue_, QueueElem(start_state_, 0))
  /\ prev_state_' = Emplace(prev_state_, start_state_, EmptyState)
  /\ pc' = "loop"
  /\ calls' = calls + 1
  /\ result' = <<>>
  /\ last_moves' = -1
  /\ dequeued' = {}
  /\ retraced' = <<>>
  /\ UNCHANGED <<start_state_, dest_x_, dest_y_, fatal, returned, unitVars>>

\* one iteration that dequeues a State with the goal piece at the target
LoopFound ==
  /\ pc = "loop"
  /\ queue_ # <<>>
  /\ LET elem == Head(queue_) IN
     /\ AtDest(elem.state, dest_x_, dest_y_)
     /\ LET t == TracePathTo(prev_state_, elem.state) IN
        /\ queue_' = Tail(queue_)
        /\ prev_state_' = t.map
        /\ last_moves' = elem.moves
        /\ dequeued' = dequeued \cup {elem}
        /\ IF t.status = "ok"
           THEN /\ pc' = "returned"
                /\ result' = t.sequence
                /\ returned' = Append(returned, t.sequence)
                /\ fatal' = fatal
           ELSE /\ pc' = "exit"
                /\ result' = result
                /\ returned' = returned
                /\ fatal' = t.status
  /\ UNCHANGED <<start_state_, dest_x_, dest_y_, calls, retraced, unitVars>>

\* one iteration that dequeues any other State and expands it
LoopExpand ==
  /\ pc = "loop"
  /\ queue_ # <<>>
  /\ LET elem == Head(queue_)
         d == StateDraw(elem.state) IN
     /\ ~AtDest(elem.state, dest_x_, dest_y_)
     /\ dequeued' = dequeued \cup {elem}
     /\ IF d.status = "ok"
        THEN \E nbrs \in NeighborsOutcomes(elem.state) :
               LET e == ExpandFrom(nbrs, 1, elem, prev_state_, Tail(queue_)) IN
               /\ queue_' = e.queue
               /\ prev_state_' = e.map
               /\ pc' = pc
               /\ fatal' = fatal
        ELSE /\ queue_' = Tail(queue_)
             /\ prev_state_' = prev_state_
             /\ pc' = "exit"
             /\ fatal' = d.status
  /\ UNCHANGED <<start_state_, dest_x_, dest_y_, result, calls, last_moves, returned,
                 retraced, unitVars>>

\* the loop condition fails: return vector<State>()
LoopExhausted ==
  /\ pc = "loop"
  /\ queue_ = <<>>
  /\ pc' = "returned"
  /\ result' = <<>>
  /\ returned' = Append(returned, <<>>)
  /\ UNCHANGED <<start_state_, dest_x_, dest_y_, queue_, prev_state_, fatal, calls,
                 last_moves, dequeued, retraced, unitVars>>

\* TracePathTo(final_state) called by the caller once more, with the State the
\* path Solve returned ends in
TraceAgain ==
  /\ pc = "returned"
  /\ result # <<>>
  /\ retraced = <<>>
  /\ LET t == TracePathTo(prev_state_, result[Len(result)]) IN
     /\ prev_state_' = t.map
     /\ IF t.status = "ok"
        THEN pc' = pc /\ retraced' = t.sequence /\ fatal' = fatal
        ELSE pc' = "exit" /\ retraced' = retraced /\ fatal' = t.status
  /\ UNCHANGED <<start_state_, dest_x_, dest_y_, queue_, result, calls, last_moves,
                 dequeued, returned, unitVars>>

Next == SolveEnter \/ LoopFound \/ LoopExpand \/ LoopExhausted \/ TraceAgain

Spec == Init /\ [][Next]_vars

(* ---- the puzzle itself, stated without the solver --------------------- *)
\* A layout as the puzzle sees it: the goal piece and the set of the others.
Config(S) == [goal |-> S[1], others |-> {S[i] : i \in 2..Len(S)}]

\* piece q, standing where p stood, touches no other piece and is on the board
FreeFor(cfg, p, q) ==
  /\ InBoard(q)
  /\ \A r \in ({cfg.goal} \cup cfg.others) \ {p} :
       PieceCellSet(q) \cap PieceCellSet(r) = {}

Abs(n) == IF n < 0 THEN -n ELSE n
Sign(n) == IF n < 0 THEN -1 ELSE 1

\* p can slide by d: every cell position on the way is free
CanSlide(cfg, p, d) ==
  \A j \in 1..Abs(d) : FreeFor(cfg, p, Move(p, Sign(d) * j))

\* the layouts one slide away, a slide being a shift by a delta of ds
SlideSucc(cfg, ds) ==
  {[cfg EXCEPT !.goal = Move(cfg.goal, d)] : d \in {e \in ds : CanSlide(cfg, cfg.goal, e)}}
  \cup
  UNION {{[cfg EXCEPT !.others = (cfg.others \ {p}) \cup {Move(p, d)}] :
            d \in {e \in ds : CanSlide(cfg, p, e)}} : p \in cfg.others}

UnitSlides == {-1, 1}
AnySlides == ((1 - kBoardSize)..(kBoardSize - 1)) \ {0}

\* the least number of slides from a layout of frontier (already k slides from
\* the start) to a layout with the goal piece anchored at (dx, dy); -1 if none
RECURSIVE SlideDist(_, _, _, _, _, _)
SlideDist(frontier, seen, k, dx, dy, ds) ==
  IF \E c \in frontier : c.goal.x = dx /\ c.goal.y = dy THEN k
  ELSE IF frontier = {} THEN -1
  ELSE LET nxt == (UNION {SlideSucc(c, ds) : c \in frontier}) \ seen IN
       SlideDist(nxt, seen \cup nxt, k + 1, dx, dy, ds)

MinSlides(S, dx, dy, ds) == SlideDist({Config(S)}, {Config(S)}, 0, dx, dy, ds)

(* ---- the operations of State and Piece applied on their own ----------- *)
UnitPieces ==
  {q \in {Piece(x, y, sz, o) :
            x \in AnchorCoords, y \in AnchorCoords, sz \in 2..MaxSize, o \in Orient} :
     InBoard(q)}

UnitStates ==
  UNION {{S \in [1..n -> UnitPieces] : ValidState(S)} : n \in 1..MaxPieces}

\* S with its non-goal pieces rearranged by the permutation f of 1..Len(S)-1
PermuteTail(S, f) == <<S[1]>> \o [i \in 1..(Len(S) - 1) |-> S[1 + f[i]]]

UnitInit ==
  /\ arg \in UnitStates
  /\ out = <<>>
  /\ op = "none"
  /\ start_state_ = EmptyState
  /\ dest_x_ = 0
  /\ dest_y_ = 0
  /\ queue_ = <<>>
  /\ prev_state_ = <<>>
  /\ pc = "unit"
  /\ result = <<>>
  /\ fatal = "none"
  /\ calls = 0
  /\ last_moves = -1
  /\ dequeued = {}
  /\ returned = <<>>
  /\ retraced = <<>>

\* Canonicalize() called on arg, and once more on what the first call left
ApplyCanonicalize ==
  /\ op \in {"none", "Canonicalize"}
  /\ Len(out) < 2
  /\ \E c \in CanonicalizeOutcomes(IF out = <<>> THEN arg ELSE out[Len(out)]) :
       out' = Append(out, c)
  /\ op' = "Canonicalize"
  /\ UNCHANGED <<arg, gameVars>>

\* Canonicalize() called on arg and on a State that holds the same pieces with
\* the non-goal ones in another order; hash() taken of both results
ApplyCanonicalizePermuted ==
  /\ op = "none"
  /\ \E f \in Perms(Len(arg) - 1) :
       \E c \in CanonicalizeOutcomes(arg), d \in CanonicalizeOutcomes(PermuteTail(arg, f)) :
         out' = <<[input |-> arg, state |-> c, hash |-> StateHash(c)],
                  [input |-> PermuteTail(arg, f), state |-> d, hash |-> StateHash(d)]>>
  /\ op' = "CanonicalizePermuted"
  /\ UNCHANGED <<arg, gameVars>>

\* Draw() of arg, MovementRange() of each piece, and Neighbors() of arg
ApplyNeighbors ==
  /\ op = "none"
  /\ StateDraw(arg).status = "ok"
  /\ \E nbrs \in NeighborsOutcomes(arg) :
       out' = [ranges |-> [i \in 1..Len(arg) |-> MovementRange(arg[i], StateDraw(arg).buf)],
               neighbors |-> nbrs]
  /\ op' = "Neighbors"
  /\ UNCHANGED <<arg, gameVars>>

UnitNext == ApplyCanonicalize \/ ApplyCanonicalizePermuted \/ ApplyNeighbors

UnitSpec == UnitInit /\ [][UnitNext]_vars

\* one pass through the loop of Solve, or the return after it
LoopStep == LoopFound \/ LoopExpand \/ LoopExhausted

\* Solve runs on one thread with nothing to wait for: while it is in its loop
\* (pc = "loop", which is when LoopStep can be taken) it keeps taking steps.
\* This is weak fairness of LoopStep with its enabling condition written out.
\* When the caller calls Solve or TracePathTo is left open.
FairSpec == Spec /\ ([]<>(pc # "loop") \/ []<><<LoopStep>>_vars)

(* ======================================================================= *)
(* Properties                                                              *)
(* ======================================================================= *)
FirstReturn == pc = "returned" /\ calls = 1

NeighborSet(S) == UNION {{n[i] : i \in 1..Len(n)} : n \in NeighborsOutcomes(S)}

\* C2: a non-empty result of the first Solve of a Game starts with the start
\* State, ends with the goal piece at the target, steps from each State to one of
\* its Neighbors, and is one longer than the move-count of the dequeued entry.
C2_ResultIsPath ==
  (FirstReturn /\ result # <<>>) =>
    /\ result[1] = start_state_
    /\ result[Len(result)][1].x = dest_x_
    /\ result[Len(result)][1].y = dest_y_
    /\ \A k \in 1..(Len(result) - 1) : result[k + 1] \in NeighborSet(result[k])
    /\ Len(result) = last_moves + 1

\* C2 witness: a returned path of at least two moves over three pieces.
C2_Witness ==
  FirstReturn /\ Len(result) >= 3 /\ Len(start_state_) = 3 /\ last_moves = Len(result) - 1

StartAtTarget == start_state_[1].x = dest_x_ /\ start_state_[1].y = dest_y_

\* C3: when the start State has the goal piece at the target, Solve returns the
\* one-element sequence <<start>> (not the empty one), having expanded nothing.
C3_AlreadySolved ==
  StartAtTarget =>
    /\ pc # "exit"
    /\ pc = "returned" =>
         /\ result = <<start_state_>>
         /\ result # <<>>
         /\ queue_ = <<>>
         /\ DOMAIN prev_state_ = {start_state_}

\* C3 witness: Solve returned <<start>> for a start that does have neighbors.
C3_Witness ==
  /\ pc = "returned"
  /\ StartAtTarget
  /\ result = <<start_state_>>
  /\ Moved(start_state_) # <<>>

\* C4: when no layout reachable from the start has the goal piece at the target,
\* Solve ends by returning the empty sequence with the frontier exhausted, never
\* by one of the two exits.
C4_UnreachableReturnsEmpty ==
  (pc \in {"returned", "exit"}
     /\ MinSlides(start_state_, dest_x_, dest_y_, UnitSlides) = -1) =>
    /\ pc = "returned"
    /\ fatal = "none"
    /\ result = <<>>
    /\ queue_ = <<>>

\* C4 witness: the first Solve returned empty after discovering ten States or more.
C4_Witness ==
  /\ FirstReturn
  /\ result = <<>>
  /\ Cardinality(DOMAIN prev_state_) >= 10
  /\ MinSlides(start_state_, dest_x_, dest_y_, AnySlides) = -1

\* C5: every State in the frontier is valid (pieces on the board, no two sharing a
\* cell), every State Neighbors returns for the front State is valid too, and the
\* clash exit of Piece::Draw is never taken.
C5_NeighborsStayValid ==
  /\ fatal = "none"
  /\ \A i \in 1..Len(queue_) : ValidState(queue_[i].state)
  /\ queue_ # <<>> => \A N \in NeighborSet(Head(queue_).state) : ValidState(N)

\* C5 witness: the front State has three pieces and four or more neighbors.
C5_Witness ==
  /\ pc = "loop"
  /\ queue_ # <<>>
  /\ Len(Head(queue_).state) = 3
  /\ Head(queue_).moves >= 2
  /\ Cardinality(NeighborSet(Head(queue_).state)) >= 4

\* the layouts reachable from a set of layouts by unit slides
RECURSIVE SlideClosure(_, _)
SlideClosure(frontier, seen) ==
  IF frontier = {} THEN seen
  ELSE LET nxt == (UNION {SlideSucc(c, UnitSlides) : c \in frontier}) \ seen IN
       SlideClosure(nxt, seen \cup nxt)

ReachableConfigs(S) == SlideClosure({Config(S)}, {Config(S)})

Covers(p, dx, dy) == <<dx, dy>> \in PieceCellSet(p)

\* C6 (as stated): when some reachable layout has the goal piece covering the
\* target cell with any of its cells, Solve returns a non-empty path that ends
\* with the goal piece covering the target cell.
C6_StopsWhenGoalCoversTarget ==
  (FirstReturn
     /\ \E c \in ReachableConfigs(start_state_) : Covers(c.goal, dest_x_, dest_y_)) =>
    /\ result # <<>>
    /\ Covers(result[Len(result)][1], dest_x_, dest_y_)

\* C6 (amended): when some reachable layout has the goal piece's (x, y) equal to
\* the target, the first Solve of a Game returns a non-empty path that ends with
\* the goal piece's (x, y) equal to the target.
C6_StopsWhenGoalAnchoredAtTarget ==
  (FirstReturn
     /\ \E c \in ReachableConfigs(start_state_) :
          c.goal.x = dest_x_ /\ c.goal.y = dest_y_) =>
    /\ result # <<>>
    /\ result[Len(result)][1].x = dest_x_
    /\ result[Len(result)][1].y = dest_y_

\* C6 witness: the start's goal piece covered the target with its second cell and
\* Solve returned a path of one move or more that anchors it there.
C6_Witness ==
  /\ FirstReturn
  /\ Len(result) >= 2
  /\ Covers(start_state_[1], dest_x_, dest_y_)
  /\ result[Len(result)][1].x = dest_x_
  /\ result[Len(result)][1].y = dest_y_

\* the index of the piece that differs between S and the moved state M, and by
\* how much it moved
MovedIndex(S, M) == CHOOSE i \in 1..Len(S) : M[i] # S[i]
MovedDelta(S, M) == AxisPos(M[MovedIndex(S, M)]) - AxisPos(S[MovedIndex(S, M)])

\* C7: Solve is deterministic.  An iteration of the loop has exactly one possible
\* outcome for the frontier and the backpointer map, and the neighbors of the
\* front State are enumerated by ascending piece index, then ascending delta.
C7_Deterministic ==
  (pc = "loop" /\ queue_ # <<>>
     /\ ~(Head(queue_).state[1].x = dest_x_ /\ Head(queue_).state[1].y = dest_y_)
     /\ StateDraw(Head(queue_).state).status = "ok") =>
    LET elem == Head(queue_)
        ms == Moved(elem.state) IN
    /\ Cardinality({ExpandFrom(n, 1, elem, prev_state_, Tail(queue_)) :
                      n \in NeighborsOutcomes(elem.state)}) = 1
    /\ \A k, l \in 1..Len(ms) :
         k < l =>
           \/ MovedIndex(elem.state, ms[k]) < MovedIndex(elem.state, ms[l])
           \/ /\ MovedIndex(elem.state, ms[k]) = MovedIndex(elem.state, ms[l])
              /\ MovedDelta(elem.state, ms[k]) < MovedDelta(elem.state, ms[l])

\* C7 witness: a front State whose two non-goal pieces had to be reordered by
\* Canonicalize in one of its neighbors.
C7_Witness ==
  /\ pc = "loop"
  /\ queue_ # <<>>
  /\ Len(Head(queue_).state) = 3
  /\ StateDraw(Head(queue_).state).status = "ok"
  /\ \E k \in 1..Len(Moved(Head(queue_).state)) :
       Moved(Head(queue_).state)[k] \notin NeighborSet(Head(queue_).state)

\* C8: Canonicalize is idempotent: called on a State with at least one piece and
\* then again on the result, the second call leaves the piece sequence unchanged.
C8_CanonicalizeIdempotent ==
  (op = "Canonicalize" /\ Len(out) = 2) => out[2] = out[1]

\* C8 witness: the first call reordered three pieces and the second call followed.
C8_Witness ==
  /\ op = "Canonicalize"
  /\ Len(out) = 2
  /\ Len(arg) = 3
  /\ out[1] # arg
  /\ out[2] = out[1]

\* C9: two valid States with the same goal piece whose other pieces are
\* permutations of each other canonicalize to sequences that operator== finds
\* equal and that have the same hash().
C9_PermutationsCanonicalizeAlike ==
  op = "CanonicalizePermuted" =>
    /\ StateEq(out[1].state, out[2].state)
    /\ out[1].hash = out[2].hash

\* C9 witness: the two inputs differed, and their non-goal pieces differ in size
\* and orientation, which the ordering does not look at.
C9_Witness ==
  /\ op = "CanonicalizePermuted"
  /\ Len(arg) = 3
  /\ out[1].input # out[2].input
  /\ arg[2].size # arg[3].size
  /\ arg[2].orient # arg[3].orient
  /\ StateEq(out[1].state, out[2].state)

\* the number of contiguous empty cells next to piece i of S along its axis, in
\* direction dir (-1: before the piece, 1: after it)
FreeCells(S, i, dir) ==
  Cardinality({k \in 1..kBoardSize : CanSlide(Config(S), S[i], dir * k)})

Min(a, b) == IF a < b THEN a ELSE b

\* out.neighbors holds piece i of arg moved by d (canonicalized)
HasCandidate(i, d) ==
  \E k \in 1..Len(out.neighbors) :
    out.neighbors[k] \in CanonicalizeOutcomes([arg EXCEPT ![i] = Move(arg[i], d)])

RECURSIVE NeighborDistFrom(_, _, _)
NeighborDistFrom(frontier, dist, k) ==
  IF frontier = {} THEN dist
  ELSE LET nxt == (UNION {NeighborSet(S) : S \in frontier}) \ DOMAIN dist IN
       NeighborDistFrom(nxt, [S \in nxt |-> k + 1] @@ dist, k + 1)

NeighborDist(S0) == NeighborDistFrom({S0}, (S0 :> 0), 0)

\* C11: in the graph whose edges are the pairs (S, N) with N in S.Neighbors(),
\* every entry a Solve dequeued carries its distance from the start State, and an
\* entry it dequeued with the goal piece at the target (the one it returned from)
\* carries the least distance of any State with the goal piece at the target.
C11_GoalEntryIsNearest ==
  pc = "returned" =>
    LET dist == NeighborDist(start_state_)
        goals == {S \in DOMAIN dist : S[1].x = dest_x_ /\ S[1].y = dest_y_}
        atDest == {e \in dequeued : e.state[1].x = dest_x_ /\ e.state[1].y = dest_y_} IN
    /\ \A e \in dequeued : e.state \in DOMAIN dist /\ e.moves = dist[e.state]
    /\ \A e \in atDest : \A S \in goals : e.moves <= dist[S]

\* C11 for the first Solve on a Game, where it holds: every dequeued entry
\* carries its distance, only the entry Solve returned from has the goal piece at
\* the target, its move-count is the least distance of any such State, and Solve
\* returns empty only when there is no such State.
C11_FirstSolveGoalEntryIsNearest ==
  FirstReturn =>
    LET dist == NeighborDist(start_state_)
        goals == {S \in DOMAIN dist : S[1].x = dest_x_ /\ S[1].y = dest_y_}
        atDest == {e \in dequeued : e.state[1].x = dest_x_ /\ e.state[1].y = dest_y_} IN
    /\ \A e \in dequeued : e.state \in DOMAIN dist /\ e.moves = dist[e.state]
    /\ result = <<>> => goals = {} /\ atDest = {}
    /\ result # <<>> =>
         /\ atDest = {[state |-> result[Len(result)], moves |-> last_moves]}
         /\ result[Len(result)] \in goals
         /\ \A S \in goals : last_moves <= dist[S]

\* the non-goal pieces of S are in the order Canonicalize leaves them in
TailSorted(S) == \A i, j \in 2..Len(S) : i < j => ~PieceLess(S[j], S[i])

\* C12: every key of the backpointer map and every State in the frontier (the
\* start State as the caller supplied it included) has its non-goal pieces sorted
\* by (y, x), no two keys are the same arrangement (same goal piece, same set of
\* other pieces), and no arrangement is dequeued twice by one Solve.
C12_NodesAreDistinctCanonicalStates ==
  /\ \A S \in DOMAIN prev_state_ : TailSorted(S)
  /\ \A i \in 1..Len(queue_) : TailSorted(queue_[i].state)
  /\ \A S, T \in DOMAIN prev_state_ : Config(S) = Config(T) => S = T
  /\ \A e, f \in dequeued : Config(e.state) = Config(f.state) => e = f

\* the number of lookups in map that lead from State S to the empty State, the
\* one that yields it included; -1 when a State has no entry or comes up twice
RECURSIVE LookupsFrom(_, _, _)
LookupsFrom(map, S, seen) ==
  IF S \notin DOMAIN map \/ S \in seen THEN -1
  ELSE IF map[S] = EmptyState THEN 1
  ELSE LET n == LookupsFrom(map, map[S], seen \cup {S}) IN
       IF n = -1 THEN -1 ELSE n + 1

\* while the first Solve on a Game is in its loop, every frontier State is a key
\* and its chain of backpointers has moves + 1 lookups
FrontierChains ==
  (calls = 1 /\ pc = "loop") =>
    \A i \in 1..Len(queue_) :
      /\ queue_[i].state \in DOMAIN prev_state_
      /\ LookupsFrom(prev_state_, queue_[i].state, {}) = queue_[i].moves + 1

\* one iteration of that loop keeps every backpointer it finds and gives each
\* new key the dequeued State as its backpointer
BackpointersKept ==
  (calls = 1 /\ pc = "loop" /\ pc' = "loop") =>
    /\ \A S \in DOMAIN prev_state_ :
         S \in DOMAIN prev_state_' /\ prev_state_'[S] = prev_state_[S]
    /\ \A S \in DOMAIN prev_state_' \ DOMAIN prev_state_ :
         prev_state_'[S] = Head(queue_).state

Slid(p, d) ==
  IF p.orient = "kHoriz" THEN [p EXCEPT !.x = p.x + d] ELSE [p EXCEPT !.y = p.y + d]

\* how many pieces of S have the given size and orientation
ShapeCount(S, size, orient) ==
  Cardinality({j \in 1..Len(S) : S[j].size = size /\ S[j].orient = orient})

\* N is S with piece i slid by d, the goal piece first and the others in any order
OnePieceSlid(S, N, i, d) ==
  LET M == [S EXCEPT ![i] = Slid(S[i], d)] IN
  /\ N[1] = M[1]
  /\ {N[j] : j \in 2..Len(N)} = {M[j] : j \in 2..Len(M)}

\* what C14 says of every State of the vector Neighbors() returned for arg
NeighborsFrame ==
  op = "Neighbors" =>
    \A k \in 1..Len(out.neighbors) :
      LET N == out.neighbors[k] IN
      /\ Len(N) = Len(arg)
      /\ Config(N) # Config(arg)
      /\ \A sz \in 1..MaxSize, o \in Orient :
           ShapeCount(N, sz, o) = ShapeCount(arg, sz, o)
      /\ Cardinality({i \in 1..Len(arg) :
                        \E d \in (-kBoardSize..kBoardSize) \ {0} : OnePieceSlid(arg, N, i, d)}) = 1

\* C14: every State in the vector S.Neighbors() returns has as many pieces as S
\* with the same count of every (size, orientation), is S with exactly one piece
\* slid by a nonzero delta along its own axis (so it is never S's arrangement),
\* all other pieces where they were and the goal piece still first; and the call
\* leaves S as it was.
C14_NeighborsMoveOnePiece ==
  /\ []NeighborsFrame
  /\ [][op' = "Neighbors" => arg' = arg]_vars

\* C14 witness: Neighbors() of a three-piece State returned one State in which
\* the goal piece moved and one in which moving another piece changed the order
\* of the non-goal pieces.
C14_Witness ==
  /\ op = "Neighbors"
  /\ Len(arg) = 3
  /\ \E k \in 1..Len(out.neighbors) : out.neighbors[k][1] # arg[1]
  /\ \E k \in 1..Len(out.neighbors) :
       /\ out.neighbors[k][1] = arg[1]
       /\ out.neighbors[k][2] \notin {arg[2], arg[3]} \/ out.neighbors[k][3] \notin {arg[2], arg[3]}
       /\ \E j \in 2..3 : out.neighbors[k][j] = arg[5 - j]

\* C15: a Solve that has entered its loop returns: the loop ends by dequeuing a
\* State with the goal piece at the target or by finding the frontier empty.
C15_SolveTerminates == (pc = "loop") ~> (pc = "returned")

\* C15 witness: a first Solve returned with the frontier empty after dequeuing
\* every one of the twenty or more States it had recorded.
C15_Witness ==
  /\ FirstReturn
  /\ queue_ = <<>>
  /\ Cardinality(dequeued) >= 20
  /\ Cardinality(dequeued) = Cardinality(DOMAIN prev_state_)

\* C16: every Solve, a repeated one on the same Game included, enters its loop
\* with the frontier holding the start State with move-count 0 and nothing else and
\* the backpointer map holding the start State mapped to the empty State and
\* nothing else, and every Solve on one Game returns what the first returned.
C16_EverySolveStartsFresh ==
  /\ (pc = "loop" /\ dequeued = {}) =>
       /\ queue_ = <<QueueElem(start_state_, 0)>>
       /\ prev_state_ = (start_state_ :> EmptyState)
  /\ \A i \in 1..Len(returned) : returned[i] = returned[1]

\* C17: TracePathTo only reads the backpointer map: once the first Solve has
\* returned a path, each State of that path still maps to the State before it
\* (the start State to the empty State), and TracePathTo called again with the
\* path's last State returns the same path.
C17_TraceOnlyReads ==
  (FirstReturn /\ result # <<>>) =>
    /\ prev_state_[result[1]] = EmptyState
    /\ \A k \in 2..Len(result) : prev_state_[result[k]] = result[k - 1]
    /\ retraced # <<>> => retraced = result

\* C18: at every point of Solve the move-counts in the frontier do not decrease
\* from front to back, and the back entry's exceeds the front entry's by at most 1.
C18_FrontierHoldsTwoLayers ==
  /\ \A i, j \in 1..Len(queue_) : i < j => queue_[i].moves <= queue_[j].moves
  /\ queue_ # <<>> => queue_[Len(queue_)].moves - queue_[1].moves <= 1

====
